---- MODULE Spec2Model ----
(***************************************************************************)
(* A model of nessus_compliance_parser_v3.py: the text normalisation       *)
(* get_value, the per-host extraction handle_report, the main loop that    *)
(* folds host records of several .nessus files into two dictionaries, and  *)
(* the summary sheet written by write_excel_report.                        *)
(*                                                                         *)
(* A text is a sequence of symbols.  A symbol is one of the characters     *)
(* get_value tells apart (space, newline, tab) or a word, which stands for *)
(* one character that is none of them.  Lengths count symbols.             *)
(***************************************************************************)
EXTENDS Integers, Sequences, FiniteSets, TLC

VARIABLES
    \* get_value applied once and twice to a raw text
    rawValue, cleanValue, cleanAgain, stage,
    \* handle_report: the items read so far, its locals, its position
    report, summary, ip_issues, benchmark_name, raised, returned,
    \* __main__: position, arguments, the two dictionaries, the workbook
    pc, nargs, file_idx, host_idx, ip_keys, summary_dict, ip_issues_dict,
    last_report, failure, workbook

valueVars  == <<rawValue, cleanValue, cleanAgain, stage>>
reportVars == <<report, summary, ip_issues, benchmark_name, raised, returned>>
mainVars   == <<pc, nargs, file_idx, host_idx, ip_keys, summary_dict,
                ip_issues_dict, last_report, failure, workbook>>
vars       == <<valueVars, reportVars, mainVars>>

----------------------------------------------------------------------------
\* Bounds of the model

\* stands for the 32000 of get_value, counted in symbols
Cutoff == 3
\* longest raw text get_value is applied to
MaxLen == 5
\* most ReportItem entries read from one ReportHost
MaxItems == 3
\* most input files on the command line
MaxFiles == 2
\* most ReportHost records read from one file
MaxHosts == 2

----------------------------------------------------------------------------
\* Texts

SP  == " "
NL  == "\n"
TAB == "\t"

Chars == {SP, NL, TAB, "a"}

\* ' [Text Cut Due To Length]'
Marker == <<SP, "[Text", SP, "Cut", SP, "Due", SP, "To", SP, "Length]">>

\* 'No output recorded'
NoOutput == <<"No", SP, "output", SP, "recorded">>

\* all texts over S of length at most n
RECURSIVE TextsUpTo(_, _)
TextsUpTo(S, n) ==
    IF n = 0 THEN {<<>>}
    ELSE LET shorter == TextsUpTo(S, n - 1)
         IN  shorter \cup {Append(t, c) : t \in {u \in shorter : Len(u) = n - 1}, c \in S}

\* rawValue.replace('\n', '\t')
ReplaceNewlines(s) == [i \in 1..Len(s) |-> IF s[i] = NL THEN TAB ELSE s[i]]

RECURSIVE LStrip(_)
LStrip(s) == IF s # <<>> /\ Head(s) = SP THEN LStrip(Tail(s)) ELSE s

RECURSIVE RStrip(_)
RStrip(s) ==
    IF s # <<>> /\ s[Len(s)] = SP THEN RStrip(SubSeq(s, 1, Len(s) - 1)) ELSE s

StripOneSpace(s) ==
    LET l == IF s # <<>> /\ Head(s) = SP THEN Tail(s) ELSE s
    IN  IF l # <<>> /\ l[Len(l)] = SP THEN SubSeq(l, 1, Len(l) - 1) ELSE l

\* .strip(' ')
StripSpaces(s) == RStrip(LStrip(s))

\* re.sub(' {2,}', ' ', cleanValue)
RECURSIVE CollapseSpaces(_)
CollapseSpaces(s) ==
    IF Len(s) < 2 THEN s
    ELSE IF s[1] = SP /\ s[2] = SP THEN CollapseSpaces(Tail(s))
         ELSE <<s[1]>> \o CollapseSpaces(Tail(s))

CutAtOrAbove(c) == IF Len(c) >= Cutoff THEN SubSeq(c, 1, Cutoff) \o Marker ELSE c

\* if len(cleanValue) > 32000: cleanValue[:32000] + ' [Text Cut Due To Length]'
CutToLength(c) == IF Len(c) > Cutoff THEN SubSeq(c, 1, Cutoff) \o Marker ELSE c

get_value(raw) == CutToLength(CollapseSpaces(StripSpaces(ReplaceNewlines(raw))))

----------------------------------------------------------------------------
\* get_value on its own: a raw text, normalised, and normalised again

IdleReport ==
    /\ report = <<>> /\ summary = <<>> /\ ip_issues = <<>>
    /\ benchmark_name = <<>> /\ raised = "" /\ returned = <<>>

IdleMain ==
    /\ pc = "idle" /\ nargs = 0 /\ file_idx = 0 /\ host_idx = 0
    /\ ip_keys = <<>> /\ summary_dict = <<>> /\ ip_issues_dict = <<>>
    /\ last_report = <<>> /\ failure = ""
    /\ workbook = [written |-> FALSE, summary |-> <<>>, sheets |-> <<>>]

IdleValue ==
    /\ rawValue = <<>> /\ cleanValue = <<>> /\ cleanAgain = <<>> /\ stage = 0

InitValue ==
    /\ rawValue \in TextsUpTo(Chars, MaxLen)
    /\ cleanValue = <<>> /\ cleanAgain = <<>> /\ stage = 0
    /\ IdleReport /\ IdleMain

Normalize ==
    /\ stage = 0
    /\ cleanValue' = get_value(rawValue)
    /\ stage' = 1
    /\ UNCHANGED <<rawValue, cleanAgain, reportVars, mainVars>>

Renormalize ==
    /\ stage = 1
    /\ cleanAgain' = get_value(cleanValue)
    /\ stage' = 2
    /\ UNCHANGED <<rawValue, cleanValue, reportVars, mainVars>>

NextValue == Normalize \/ Renormalize

SpecValue == InitValue /\ [][NextValue]_vars

----------------------------------------------------------------------------
\* C8: normalising an already normalised text changes nothing, also when the
\* text was cut (it then ends with the marker and is longer than the cutoff)
\* and when the kept prefix ends with a space right before the marker.
C8_Idempotent == stage = 2 => cleanAgain = cleanValue

\* a cut text whose kept prefix ends with a space, normalised a second time
C8_Witness ==
    /\ stage = 2
    /\ Len(cleanValue) = Cutoff + Len(Marker)
    /\ cleanValue[Cutoff] = SP
    /\ cleanValue # rawValue

\* C9 as stated: every raw text one symbol longer than the cutoff becomes its
\* own prefix of cutoff length followed by the marker.
C9_AnyValueCut ==
    (stage >= 1 /\ Len(rawValue) = Cutoff + 1)
        => cleanValue = SubSeq(rawValue, 1, Cutoff) \o Marker

\* no leading or trailing space and no run of two or more spaces
SpacesClean(s) ==
    /\ s # <<>> => (s[1] # SP /\ s[Len(s)] # SP)
    /\ \A i \in 1..(Len(s) - 1) : ~(s[i] = SP /\ s[i + 1] = SP)

\* C9 amended: a raw text one symbol longer than the cutoff with no leading
\* or trailing space and no run of spaces becomes its prefix of cutoff
\* length, newlines turned into tabs, followed by the marker; one that has
\* such spaces shrinks to the cutoff or below and gets no marker.
C9_CleanValueCut ==
    (stage >= 1 /\ Len(rawValue) = Cutoff + 1)
        => IF SpacesClean(rawValue)
           THEN /\ Len(cleanValue) = Cutoff + Len(Marker)
                /\ SubSeq(cleanValue, Cutoff + 1, Len(cleanValue)) = Marker
                /\ \A i \in 1..Cutoff :
                      cleanValue[i] = IF rawValue[i] = NL THEN TAB ELSE rawValue[i]
           ELSE /\ Len(cleanValue) <= Cutoff
                /\ \A i \in 1..Len(cleanValue) : cleanValue[i] # "[Text"

\* a raw text of cutoff + 1 symbols holding a newline, cut after the cutoff
C9_Witness ==
    /\ stage >= 1
    /\ Len(rawValue) = Cutoff + 1
    /\ SpacesClean(rawValue)
    /\ \E i \in 1..Cutoff : rawValue[i] = NL
    /\ Len(cleanValue) = Cutoff + Len(Marker)

----------------------------------------------------------------------------
\* ReportItem entries

CheckName   == "compliance-check-name"
Result      == "compliance-result"
Info        == "compliance-info"
PolicyValue == "compliance-policy-value"
ActualValue == "compliance-actual-value"
Solution    == "compliance-solution"
Profile     == "compliance-benchmark-profile"
SeeAlso     == "compliance-see-also"

COMPLIANCE_TAGS ==
    <<CheckName, Result, Info, PolicyValue, ActualValue, Solution, Profile, SeeAlso>>

TagSet == {COMPLIANCE_TAGS[i] : i \in 1..Len(COMPLIANCE_TAGS)}

BenchmarkName    == "compliance-benchmark-name"
BenchmarkVersion == "compliance-benchmark-version"
PluginOutput     == "plugin_output"

\* a child element with text, and one without (elem.text is None)
Elem(t)   == [text |-> t, is_none |-> FALSE]
EmptyElem == [text |-> <<>>, is_none |-> TRUE]

\* the keys of handle_report's summary_dict
ResultKeys == {<<"FAILED">>, <<"PASSED">>, <<"WARNING">>, <<"ERROR">>}

\* summary_dict = {'FAILED': 0, 'PASSED': 0, 'WARNING': 0, 'ERROR': 0}
ZeroSummary == [k \in ResultKeys |-> 0]

\* item.find(tag): the child element, or nothing
Has(item, tag) == tag \in DOMAIN item

\* {elem.tag: get_value(elem.text) for elem in item if elem.tag in COMPLIANCE_TAGS}
\* raises AttributeError when a recognised element has no text
IssueDictRaises(item) == \E t \in DOMAIN item \cap TagSet : item[t].is_none

IssueDict(item) == [t \in DOMAIN item \cap TagSet |-> get_value(item[t].text)]

\* if len(ip_issues) == 1 and benchmark_name == ''
LookupDue(issues, bname) == Len(issues) = 1 /\ bname = <<>>

\* item.find(name).text + ' v' + item.find(version).text: what it raises, if anything
LookupRaises(item) ==
    IF ~Has(item, BenchmarkName) THEN "AttributeError"
    ELSE IF ~Has(item, BenchmarkVersion) THEN "AttributeError"
    ELSE IF item[BenchmarkName].is_none \/ item[BenchmarkVersion].is_none
         THEN "TypeError"
    ELSE ""

Lookup(item) == item[BenchmarkName].text \o <<SP, "v">> \o item[BenchmarkVersion].text

NoDefault(d) == d

\* if actual-value not in issue_dict.keys(): issue_dict[actual-value] = 'No output recorded'
WithDefault(d) ==
    IF ActualValue \in DOMAIN d THEN d
    ELSE [t \in DOMAIN d \cup {ActualValue} |->
             IF t = ActualValue THEN NoOutput ELSE d[t]]

\* if len(issue_dict.keys()) == len(COMPLIANCE_TAGS)
Accepted(d) == Cardinality(DOMAIN d) = Len(COMPLIANCE_TAGS)

AnyResultKnown(counts, d) == TRUE

\* summary_dict[issue_dict[result]] raises KeyError for a key it does not hold
ResultKnown(counts, d) == d[Result] \in DOMAIN counts

IncrementAll(counts, key) == [k \in DOMAIN counts |-> counts[k] + 1]

\* summary_dict[...] += 1
Increment(counts, key) ==
    IF key \in DOMAIN counts THEN [counts EXCEPT ![key] = @ + 1] ELSE counts

\* issue_list = [issue_dict[tag] for tag in COMPLIANCE_TAGS]
IssueList(d) == [i \in 1..Len(COMPLIANCE_TAGS) |-> d[COMPLIANCE_TAGS[i]]]

Raise(st, e) == [st EXCEPT !.raised = e]

\* one pass of the for loop of handle_report over item, from the locals st
ProcessItem(st, item) ==
    IF IssueDictRaises(item) THEN Raise(st, "AttributeError")
    ELSE IF LookupDue(st.ip_issues, st.benchmark_name) /\ LookupRaises(item) # ""
         THEN Raise(st, LookupRaises(item))
    ELSE
      LET bname == IF LookupDue(st.ip_issues, st.benchmark_name)
                   THEN Lookup(item) ELSE st.benchmark_name
          d     == WithDefault(IssueDict(item))
          st1   == [st EXCEPT !.benchmark_name = bname]
      IN  IF ~Accepted(d) THEN st1
          ELSE IF ~ResultKnown(st.summary, d) THEN Raise(st1, "KeyError")
          ELSE [st1 EXCEPT !.summary = Increment(st.summary, d[Result]),
                           !.ip_issues = Append(st.ip_issues, IssueList(d))]

\* summary_counts = [benchmark_name, PASSED, FAILED, WARNING, ERROR]
SummaryCounts(bname, counts) ==
    <<bname, counts[<<"PASSED">>], counts[<<"FAILED">>],
      counts[<<"WARNING">>], counts[<<"ERROR">>]>>

\* the locals of handle_report as it starts
StartLocals ==
    [summary |-> ZeroSummary, ip_issues |-> <<>>, benchmark_name |-> <<>>,
     raised |-> ""]

RECURSIVE RunItems(_, _)
RunItems(st, items) ==
    IF items = <<>> \/ st.raised # "" THEN st
    ELSE RunItems(ProcessItem(st, Head(items)), Tail(items))

\* handle_report(report): what it raises, and the pair it returns otherwise
handle_report(items) ==
    LET st == RunItems(StartLocals, items)
    IN  [raised |-> st.raised,
         res |-> st.ip_issues,
         summary_res |-> SummaryCounts(st.benchmark_name, st.summary)]

----------------------------------------------------------------------------
\* The entries the model reads

Restrict(f, S) == [t \in DOMAIN f \cap S |-> f[t]]

Merge(f, g) ==
    [t \in DOMAIN f \cup DOMAIN g |-> IF t \in DOMAIN g THEN g[t] ELSE f[t]]

\* the eight compliance elements, the result as given
Compliance(res) ==
    [t \in TagSet |->
        IF t = Result THEN Elem(res)
        ELSE IF t = Info THEN Elem(<<NL, "info", SP, SP>>)
        ELSE IF t = ActualValue THEN Elem(<<"actual", SP, SP, "value">>)
        ELSE IF t = SeeAlso THEN Elem(<<"see", "also", SP, "at", "url">>)
        ELSE Elem(<<t>>)]

Bench(name, version) ==
    (BenchmarkName :> Elem(<<name>>)) @@ (BenchmarkVersion :> Elem(<<version>>))

NoBench == Restrict(Bench("x", "0"), {})

ResultTexts ==
    {<<"PASSED">>, <<"FAILED">>, <<"WARNING">>, <<"ERROR">>,
     <<SP, "PASSED", NL>>, <<"UNKNOWN">>}

Mandatory == TagSet \ {ActualValue}

Items ==
    \* entries with all eight compliance elements
    {Merge(Compliance(r), Bench("CIS", "1")) : r \in ResultTexts}
    \cup {Merge(Compliance(r), NoBench) : r \in {<<"PASSED">>, <<"UNKNOWN">>}}
    \* entries without the actual value
    \cup {Merge(Restrict(Compliance(<<"FAILED">>), Mandatory), b) :
             b \in {NoBench, Bench("CIS", "2")}}
    \* entries without one of the seven other elements
    \cup {Merge(Restrict(Compliance(<<"PASSED">>), TagSet \ {m}), Bench("DISA", "3")) :
             m \in Mandatory}
    \* a vulnerability-only entry
    \cup {PluginOutput :> Elem(<<"output">>)}
    \* entries with an element outside the recognised set, with an element
    \* that has no text, with the benchmark elements incomplete
    \cup {Merge(Compliance(<<"WARNING">>),
                Merge(Bench("CIS", "1"), PluginOutput :> Elem(<<"output">>))),
          Merge(Compliance(<<"PASSED">>), Info :> EmptyElem),
          Merge(Compliance(<<"PASSED">>), Restrict(Bench("CIS", "1"), {BenchmarkName})),
          Merge(Compliance(<<"PASSED">>),
                Merge(Bench("CIS", "1"), BenchmarkVersion :> EmptyElem))}

----------------------------------------------------------------------------
\* handle_report on its own, one ReportItem at a time

InitReport ==
    /\ report = <<>>
    /\ summary = ZeroSummary
    /\ ip_issues = <<>>
    /\ benchmark_name = <<>>
    /\ raised = ""
    /\ returned = <<>>
    /\ IdleValue /\ IdleMain

Locals ==
    [summary |-> summary, ip_issues |-> ip_issues,
     benchmark_name |-> benchmark_name, raised |-> raised]

\* for item in report.findall('ReportItem'): one more entry
ReadItem ==
    /\ raised = "" /\ returned = <<>>
    /\ Len(report) < MaxItems
    /\ \E item \in Items :
          LET st == ProcessItem(Locals, item)
          IN  /\ report' = Append(report, item)
              /\ summary' = st.summary
              /\ ip_issues' = st.ip_issues
              /\ benchmark_name' = st.benchmark_name
              /\ raised' = st.raised
    /\ UNCHANGED <<returned, valueVars, mainVars>>

\* the loop ends: return ip_issues, summary_counts
Return ==
    /\ raised = "" /\ returned = <<>>
    /\ returned' = <<ip_issues, SummaryCounts(benchmark_name, summary)>>
    /\ UNCHANGED <<report, summary, ip_issues, benchmark_name, raised,
                   valueVars, mainVars>>

NextReport == ReadItem \/ Return

SpecReport == InitReport /\ [][NextReport]_vars

----------------------------------------------------------------------------
\* What the claims say about the entries read, stated over the input

\* the entry carries the seven mandatory recognised elements
HasMandatory(item) == Mandatory \subseteq DOMAIN item

\* the entries the loop went through without raising
Processed == IF raised = "" THEN report ELSE SubSeq(report, 1, Len(report) - 1)

\* the entries of items that carry the seven mandatory elements, in order
RECURSIVE Complete(_)
Complete(items) ==
    IF items = <<>> THEN <<>>
    ELSE IF HasMandatory(Head(items)) THEN <<Head(items)>> \o Complete(Tail(items))
         ELSE Complete(Tail(items))

\* the normalised text of an element of an entry
Field(item, tag) == get_value(item[tag].text)

RECURSIVE CountResult(_, _)
CountResult(items, r) ==
    IF items = <<>> THEN 0
    ELSE (IF Field(Head(items), Result) = r THEN 1 ELSE 0) + CountResult(Tail(items), r)

\* C2 as stated: the benchmark returned is name + ' v' + version of the second
\* entry that carries the mandatory elements, and empty when there are fewer
\* than two such entries, whatever other entries lie between or after them.
C2_SecondAccepted ==
    returned # <<>> =>
        LET acc == Complete(report)
        IN  returned[2][1] =
               IF Len(acc) >= 2 /\ Has(acc[2], BenchmarkName) /\ Has(acc[2], BenchmarkVersion)
               THEN acc[2][BenchmarkName].text \o <<SP, "v">> \o acc[2][BenchmarkVersion].text
               ELSE <<>>

\* C3 as stated: an entry lacking a mandatory element never makes
\* handle_report raise, wherever it stands in the record.
C3_IncompleteNeverRaises ==
    raised # "" => HasMandatory(report[Len(report)])

\* C4: each of the four counters equals the number of entries gone through
\* that carry the mandatory elements and whose normalised result is that
\* counter's key, so an accepted entry adds one to its own counter only and a
\* dropped entry adds nothing.
C4_CountersMatch ==
    \A r \in ResultKeys : summary[r] = CountResult(Complete(Processed), r)

\* counters of two different results above zero after a dropped entry
C4_Witness ==
    /\ summary[<<"PASSED">>] >= 1 /\ summary[<<"ERROR">>] >= 1
    /\ Len(report) = 3 /\ Len(ip_issues) = 2 /\ raised = ""

\* C5 as stated: an entry gives a row exactly when it carries the seven
\* mandatory elements.
C5_RowIffMandatory == Len(ip_issues) = Len(Complete(report))

\* C5 amended: among the entries handle_report goes through without raising,
\* an entry gives a row exactly when it carries the seven mandatory elements;
\* the row holds the eight normalised values in the order of COMPLIANCE_TAGS,
\* with 'No output recorded' for a missing actual value; the entry at which
\* handle_report raises gives no row.
C5_RowIffMandatoryUnlessRaised ==
    LET acc == Complete(Processed)
    IN  /\ Len(ip_issues) = Len(acc)
        /\ \A k \in 1..Len(acc) :
              /\ Len(ip_issues[k]) = 8
              /\ \A i \in 1..8 :
                    ip_issues[k][i] =
                       IF COMPLIANCE_TAGS[i] = ActualValue /\ ~Has(acc[k], ActualValue)
                       THEN <<"No", SP, "output", SP, "recorded">>
                       ELSE Field(acc[k], COMPLIANCE_TAGS[i])

\* a row with the sentinel after an entry that was dropped
C5_Witness ==
    /\ Len(report) = 2 /\ raised = ""
    /\ ~HasMandatory(report[1])
    /\ ~Has(report[2], ActualValue)
    /\ Len(ip_issues) = 1
    /\ ip_issues[1][5] = <<"No", SP, "output", SP, "recorded">>

RECURSIVE SumOf(_, _)
SumOf(f, S) ==
    IF S = {} THEN 0
    ELSE LET k == CHOOSE x \in S : TRUE IN f[k] + SumOf(f, S \ {k})

\* C10: every row has one of the four results, there are as many rows as the
\* four counters add up to, and an entry with all its elements whose
\* normalised result is none of the four makes handle_report raise (KeyError,
\* unless the benchmark lookup raised first) with no row appended for it.
C10_RowsHaveKnownResult ==
    /\ \A k \in 1..Len(ip_issues) :
          ip_issues[k][2] \in {<<"PASSED">>, <<"FAILED">>, <<"WARNING">>, <<"ERROR">>}
    /\ Len(ip_issues) = SumOf(summary, DOMAIN summary)
    /\ report # <<>> =>
          LET last == report[Len(report)]
          IN  (/\ TagSet \subseteq DOMAIN last
               /\ \A t \in TagSet : ~last[t].is_none
               /\ Field(last, Result) \notin
                     {<<"PASSED">>, <<"FAILED">>, <<"WARNING">>, <<"ERROR">>})
              => /\ raised # ""
                 /\ ~(Len(ip_issues) = 1 /\ benchmark_name = <<>>) => raised = "KeyError"
                 /\ Len(ip_issues) = Len(Complete(SubSeq(report, 1, Len(report) - 1)))

\* an entry with an unknown result read after an accepted one with benchmark
C10_Witness ==
    /\ Len(report) = 3 /\ raised = "KeyError"
    /\ Len(ip_issues) = 2
    /\ Field(report[3], Result) = <<"UNKNOWN">>

----------------------------------------------------------------------------
\* __main__ and write_excel_report

IPs == {"10.0.0.1", "10.0.0.2"}

\* the entry with all eight elements, result r, and the benchmark elements b
ItemOf(r, b) == Merge(Compliance(r), b)

\* the ReportHost records the model reads
Reports ==
    {<<>>,
     <<ItemOf(<<"PASSED">>, NoBench)>>,
     <<ItemOf(<<"PASSED">>, Bench("CIS", "1")), ItemOf(<<"FAILED">>, Bench("CIS", "1")),
       ItemOf(<<"ERROR">>, Bench("CIS", "1"))>>,
     <<ItemOf(<<"WARNING">>, NoBench),
       Merge(Restrict(Compliance(<<"FAILED">>), Mandatory), Bench("CIS", "2")),
       PluginOutput :> Elem(<<"output">>)>>,
     <<PluginOutput :> Elem(<<"output">>), ItemOf(<<"ERROR">>, NoBench)>>,
     <<ItemOf(<<"FAILED">>, Bench("CIS", "1")), PluginOutput :> Elem(<<"output">>)>>,
     <<ItemOf(<<"UNKNOWN">>, Bench("CIS", "1"))>>}

\* dictionaries are functions; ip_keys holds their keys in insertion order
EmptyDict == <<>>

SetDefault(d, k, v) == IF k \in DOMAIN d THEN d ELSE [x \in DOMAIN d \cup {k} |-> v]

\* d[k] = v
SetItem(d, k, v) == [x \in DOMAIN d \cup {k} |-> IF x = k THEN v ELSE d[x]]

\* a new key goes last; a key already held keeps its place
KeysAfter(keys, k) ==
    IF \E i \in 1..Len(keys) : keys[i] = k THEN keys ELSE Append(keys, k)

\* return ip_summary[1] + ip_summary[2] + (ip_summary[3] + ip_summary[4])
get_total(ip_summary) ==
    ip_summary[2] + ip_summary[3] + (ip_summary[4] + ip_summary[5])

\* summ.write(row, col, value): a later write to a cell replaces the earlier
Write(cells, col, value) ==
    [c \in DOMAIN cells \cup {col} |-> IF c = col THEN value ELSE cells[c]]

\* for j in range(len(summary_dict[ip])): summ.write(row, j+2, summary_dict[ip][j])
RECURSIVE WriteCounts(_, _, _)
WriteCounts(cells, s, j) ==
    IF j >= Len(s) THEN cells
    ELSE WriteCounts(Write(cells, j + 2, s[j + 1]), s, j + 1)

\* one row of the Summary sheet
SummaryRow(row, ip, s) ==
    Write(WriteCounts(Write(Write(<<>>, 0, row), 1, ip), s, 0), 6, get_total(s))

\* the workbook write_excel_report closes
write_excel_report(keys, sd, idict) ==
    [written |-> TRUE,
     summary |-> [r \in 1..Len(keys) |-> SummaryRow(r, keys[r], sd[keys[r]])],
     sheets  |-> [ip \in DOMAIN idict |-> idict[ip]]]

InitMain ==
    /\ pc = "parse"
    /\ nargs \in 1..MaxFiles
    /\ file_idx = 1
    /\ host_idx = 0
    /\ ip_keys = <<>>
    /\ summary_dict = EmptyDict
    /\ ip_issues_dict = EmptyDict
    /\ last_report = EmptyDict
    /\ failure = ""
    /\ workbook = [written |-> FALSE, summary |-> <<>>, sheets |-> <<>>]
    /\ IdleValue /\ IdleReport

Exit(e) ==
    /\ pc' = "exited"
    /\ failure' = e
    /\ UNCHANGED <<nargs, file_idx, host_idx, ip_keys, summary_dict,
                   ip_issues_dict, last_report, workbook>>

ParseFileSkipping ==
    /\ pc = "parse"
    /\ \E outcome \in {"ok", "IOError", "ParseError"} :
          IF outcome = "ok"
          THEN /\ pc' = "hosts"
               /\ host_idx' = 0
               /\ UNCHANGED <<nargs, file_idx, ip_keys, summary_dict,
                              ip_issues_dict, last_report, failure, workbook>>
          ELSE /\ pc' = IF file_idx = nargs THEN "write" ELSE "parse"
               /\ file_idx' = file_idx + 1
               /\ failure' = outcome
               /\ UNCHANGED <<nargs, host_idx, ip_keys, summary_dict,
                              ip_issues_dict, last_report, workbook>>
    /\ UNCHANGED <<valueVars, reportVars>>

\* scanFile = ET.parse(nessusScan): an IOError prints and exits, a parse
\* error is not caught
ParseFile ==
    /\ pc = "parse"
    /\ \E outcome \in {"ok", "IOError", "ParseError"} :
          IF outcome = "ok"
          THEN /\ pc' = "hosts"
               /\ host_idx' = 0
               /\ UNCHANGED <<nargs, file_idx, ip_keys, summary_dict,
                              ip_issues_dict, last_report, failure, workbook>>
          ELSE Exit(outcome)
    /\ UNCHANGED <<valueVars, reportVars>>

\* one ReportHost of the file: its host-ip tag, handle_report, the two stores
ExtractHost ==
    /\ pc = "hosts"
    /\ host_idx < MaxHosts
    /\ \E has_ip \in BOOLEAN, ip_address \in IPs, rep \in Reports :
          LET r == handle_report(rep)
          IN  IF ~has_ip THEN Exit("AttributeError")
              ELSE IF r.raised # "" THEN Exit(r.raised)
              ELSE /\ ip_issues_dict' = SetItem(ip_issues_dict, ip_address, r.res)
                   /\ summary_dict' = SetItem(summary_dict, ip_address, r.summary_res)
                   /\ ip_keys' = KeysAfter(ip_keys, ip_address)
                   /\ last_report' = [x \in DOMAIN last_report \cup {ip_address} |->
                                          IF x = ip_address THEN rep ELSE last_report[x]]
                   /\ host_idx' = host_idx + 1
                   /\ UNCHANGED <<pc, nargs, file_idx, failure, workbook>>
    /\ UNCHANGED <<valueVars, reportVars>>

\* the file has no more ReportHost: on to the next file, or to the writer
EndFile ==
    /\ pc = "hosts"
    /\ file_idx' = file_idx + 1
    /\ pc' = IF file_idx = nargs THEN "write" ELSE "parse"
    /\ UNCHANGED <<nargs, host_idx, ip_keys, summary_dict, ip_issues_dict,
                   last_report, failure, workbook>>
    /\ UNCHANGED <<valueVars, reportVars>>

\* write_excel_report(output_wb, summary_dict, ip_issues_dict, ...)
WriteReport ==
    /\ pc = "write"
    /\ workbook' = write_excel_report(ip_keys, summary_dict, ip_issues_dict)
    /\ pc' = "done"
    /\ UNCHANGED <<nargs, file_idx, host_idx, ip_keys, summary_dict,
                   ip_issues_dict, last_report, failure>>
    /\ UNCHANGED <<valueVars, reportVars>>

Next == ParseFile \/ ExtractHost \/ EndFile \/ WriteReport

Spec == InitMain /\ [][Next]_vars

----------------------------------------------------------------------------
\* C1 as stated: the Total of every Summary row is passed + failed + warning,
\* the error count left out.
C1_TotalLeavesOutErrors ==
    workbook.written =>
        \A r \in 1..Len(workbook.summary) :
            LET row == workbook.summary[r]
            IN  row[6] = row[3] + row[4] + row[5]

\* the row an entry with the mandatory elements gives
RowOf(item) ==
    [i \in 1..8 |->
        IF COMPLIANCE_TAGS[i] = ActualValue /\ ~Has(item, ActualValue)
        THEN <<"No", SP, "output", SP, "recorded">>
        ELSE Field(item, COMPLIANCE_TAGS[i])]

KeySet == {ip_keys[i] : i \in 1..Len(ip_keys)}

C7_AllOrNothing ==
    /\ [](/\ workbook.written => (pc = "done" /\ failure = "" /\ file_idx = nargs + 1)
          /\ failure # "" => (pc = "exited" /\ ~workbook.written))
    /\ [][failure # "" => UNCHANGED mainVars]_vars

\* the second of two files fails after a host of the first was extracted
C7_Witness ==
    /\ nargs = 2 /\ file_idx = 2
    /\ failure = "IOError" /\ pc = "exited"
    /\ DOMAIN summary_dict # {}
    /\ ~workbook.written

====
